---- MODULE Spec2Model ----
(***************************************************************************)
(* A model of pyblish/plugin.py: the dependency provider, the execution    *)
(* engine (process / repair), the registry and plug-in discovery.          *)
(*                                                                         *)
(* Three specifications share the module's variables:                      *)
(*   Spec          the execution engine on one Context, with the service   *)
(*                 registry it injects from;                               *)
(*   ProviderSpec  one Provider object: inject / invoke, with the service  *)
(*                 registry;                                               *)
(*   DiscoverSpec  the plug-in and path registries and discover().         *)
(* Values of Python are strings or records; None is the string "None".     *)
(***************************************************************************)
EXTENDS Naturals, Integers, Sequences, FiniteSets, TLC

VARIABLES
    _registered_services,  \* pyblish._registered_services: name -> object
    ctxData,               \* Context._data of the one Context of the run
    rootHandlers,          \* logging.getLogger().handlers, in attachment order
    calls,                 \* process/repair calls made so far
    last,                  \* what the last process/repair call did
    provider,              \* Provider._services of the Provider under test
    lastInvoke,            \* what the last Provider.invoke call did
    _registered_plugins,   \* pyblish._registered_plugins: class name -> class
    _registered_paths,     \* pyblish._registered_paths
    config_paths,          \* Config()["paths"], templates expanded
    environ,               \* os.environ[PYBLISHPLUGINPATH], split at os.pathsep
    executable,            \* basename(sys.executable).lower()
    lastDiscover,          \* what the last registry / discover / sort call did
    held,                  \* the value a registry accessor returned to its caller
    entities,              \* the Context, the Instances and other objects
    lastEntity,            \* what the last entity call did
    stack,                 \* process/repair calls whose body is running, outermost first
    log,                   \* the records emitted on the root logger so far
    lastNest               \* what the last step of a re-entrant run did

vars == <<_registered_services, ctxData, rootHandlers, calls, last, provider,
          lastInvoke, _registered_plugins, _registered_paths, config_paths,
          environ, executable, lastDiscover, held, entities, lastEntity,
          stack, log, lastNest>>

nestVars == <<stack, log, lastNest>>
engineVars == <<ctxData, rootHandlers, calls, last, nestVars>>
providerVars == <<provider, lastInvoke>>
discoverVars == <<_registered_plugins, _registered_paths, config_paths,
                  environ, executable, lastDiscover>>
accessorVars == <<held>>
entityVars == <<entities, lastEntity>>
others_but_held == <<_registered_services, engineVars, providerVars,
                     config_paths, environ, executable, entityVars>>

----------------------------------------------------------------------------
(* Bounds                                                                  *)

\* process/repair calls in one run of the engine
MaxCalls == 2

\* entries the caller of an accessor adds to the list it was handed
MaxHeldLen == 2

----------------------------------------------------------------------------
(* Generic helpers                                                         *)

None == "None"

Range(s) == {s[i] : i \in DOMAIN s}

\* dict without one key (dict.pop / del)
Without(d, k) == [x \in DOMAIN d \ {k} |-> d[x]]

\* dict[k] = v
With(d, k, v) == [x \in DOMAIN d \cup {k} |-> IF x = k THEN v ELSE d[x]]

EmptyDict == [x \in {} |-> None]

----------------------------------------------------------------------------
(* Services and Provider                                       lines 36-75 *)

\* names a callable may declare and a service may be registered under
ServiceNames == {"context", "user"}

\* objects registered as services by the host
ServiceObjs == {"svcA", "svcB"}

\* mutant: the registry's object wins over the local binding
services_registry_first(local) ==
    [k \in DOMAIN _registered_services \cup DOMAIN local |->
        IF k \in DOMAIN _registered_services
        THEN _registered_services[k] ELSE local[k]]

\* Provider.services: a copy of the registry updated with the local bindings
services(local) ==
    [k \in DOMAIN _registered_services \cup DOMAIN local |->
        IF k \in DOMAIN local THEN local[k] ELSE _registered_services[k]]

\* Provider.args: the declared parameter names, minus those NAMED self or cls
args(func) ==
    SelectSeq(func.params, LAMBDA a : a \notin {"self", "cls"})

\* Python's binding of func(**inject): a bound method gets its first
\* parameter from the receiver; every other parameter must be passed (the
\* modelled callables declare no defaults, no *args, no **kwargs) and no
\* other name may be passed.
Binds(func, inject) ==
    IF func.bound
    THEN /\ Len(func.params) >= 1
         /\ Range(Tail(func.params)) = DOMAIN inject
    ELSE Range(func.params) = DOMAIN inject

\* mutant: no availability check, the callable gets what is available
invoke_unchecked(local, func) ==
    LET inject == [k \in DOMAIN services(local) \cap Range(args(func)) |->
                      services(local)[k]]
    IN  [status |-> IF Binds(func, inject) THEN "call" ELSE "TypeError",
         inject |-> inject]

\* Provider.invoke up to the call: "KeyError" when a requested name is not a
\* service, else the keyword arguments handed to func and whether Python
\* can bind them ("call") or refuses the call ("TypeError").
invoke(local, func) ==
    LET s == services(local)
        a == args(func)
    IN  IF ~ (\A i \in DOMAIN a : a[i] \in DOMAIN s)
        THEN [status |-> "KeyError", inject |-> EmptyDict]
        ELSE LET inject == [k \in DOMAIN s \cap Range(a) |-> s[k]]
             IN  [status |-> IF Binds(func, inject) THEN "call" ELSE "TypeError",
                  inject |-> inject]

\* register_service
register_service(name, obj) ==
    _registered_services' = With(_registered_services, name, obj)

\* deregister_service: dict.pop raises KeyError on an absent name
deregister_service(name) ==
    /\ name \in DOMAIN _registered_services
    /\ _registered_services' = Without(_registered_services, name)

\* deregister_all_services
deregister_all_services ==
    _registered_services' = EmptyDict

----------------------------------------------------------------------------
(* Plug-in classes handed to the engine                                    *)
(*                                                                         *)
(* A class is what the engine can observe of it: whether plugin() raises,  *)
(* and for process and repair the declared parameters and what the body    *)
(* does when it runs: what it does to the context's "results" entry        *)
(* ("keep", "remove" = context.remove_data("results"), "replace" =         *)
(* context.set_data("results", list())), how many log records it emits,    *)
(* how many clock ticks it takes and how it ends ("return", "raise" = an   *)
(* Exception such as RuntimeError("boom"), "exit" = a BaseException that   *)
(* is no Exception, such as SystemExit from sys.exit()).                   *)
(* No class here has process_instance/process_context/repair_instance/     *)
(* repair_context, so process and repair never delegate to pyblish.legacy. *)

Method(params, tamper, logs, ticks, outcome) ==
    [params |-> params, bound |-> TRUE, tamper |-> tamper, logs |-> logs,
     ticks |-> ticks, outcome |-> outcome]

PluginClasses ==
    [Good      |-> [init    |-> "ok",
                    process |-> Method(<<"self", "context">>, "keep", 1, 1, "return"),
                    repair  |-> Method(<<"self">>, "keep", 0, 0, "return")],
     Boom      |-> [init    |-> "ok",
                    process |-> Method(<<"self", "context", "instance">>, "keep", 1, 1, "raise"),
                    repair  |-> Method(<<"self", "instance">>, "keep", 1, 0, "raise")],
     NeedsUser |-> [init    |-> "ok",
                    process |-> Method(<<"self", "user">>, "keep", 1, 1, "return"),
                    repair  |-> Method(<<"self", "context", "user">>, "keep", 1, 1, "raise")],
     BadInit   |-> [init    |-> "raise",
                    process |-> Method(<<"self", "context">>, "keep", 1, 1, "return"),
                    repair  |-> Method(<<"self", "user">>, "keep", 1, 1, "return")],
     Dropper   |-> [init    |-> "ok",
                    process |-> Method(<<"self", "context">>, "remove", 0, 1, "return"),
                    repair  |-> Method(<<"self", "context">>, "remove", 1, 1, "raise")],
     Replacer  |-> [init    |-> "ok",
                    process |-> Method(<<"self", "context">>, "replace", 0, 1, "raise"),
                    repair  |-> Method(<<"self", "context">>, "replace", 1, 0, "return")],
     Exiter    |-> [init    |-> "ok",
                    process |-> Method(<<"self">>, "keep", 1, 1, "exit"),
                    repair  |-> Method(<<"self", "context">>, "keep", 0, 1, "exit")]]

Plugins == DOMAIN PluginClasses

\* the instance argument of process/repair: None for a context-level call
Instances == {None, "inst1"}

\* the Context object the engine injects as "context"
ContextObj == "ctx"

\* exceptions are told apart by type and by the code that raised them
Error(type, by) == [type |-> type, by |-> by]

NoError == Error(None, None)

\* isinstance(e, Exception): SystemExit, KeyboardInterrupt and GeneratorExit
\* derive from BaseException only
IsException(e) == e.type # "SystemExit"

\* the exception a method body ends with
BodyError(plugin, m) ==
    CASE m.outcome = "raise" -> Error("RuntimeError", plugin)
      [] m.outcome = "exit"  -> Error("SystemExit", plugin)
      [] OTHER               -> NoError

\* the log records a body emits on the root logger
BodyRecords(plugin, m) == [i \in 1..m.logs |-> [by |-> plugin, n |-> i]]

NoResult ==
    [success |-> FALSE, plugin |-> None, instance |-> None, error |-> NoError,
     records |-> <<>>, duration |-> None]

----------------------------------------------------------------------------
(* Execution engine                                          lines 235-359 *)

\* lines 263-264 / 314-315: create the "results" entry on first use
EnsureResults(data) ==
    IF "results" \notin DOMAIN data THEN With(data, "results", <<>>) ELSE data

\* what a running body does to the context's data store
Tamper(m, data) ==
    CASE m.tamper = "remove"  -> Without(data, "results")
      [] m.tamper = "replace" -> With(data, "results", <<>>)
      [] OTHER                -> data

\* logging.Logger.removeHandler: drops the handler when it is attached
removeHandler(hs, h) == SelectSeq(hs, LAMBDA x : x # h)

\* lines 289-294 / 340-345: "except Exception" catches Exception instances
Caught(e) == e # NoError /\ IsException(e)

\* mutant: success is set before the body is invoked
TryResult_success_first(thrown) ==
    [success |-> TRUE, error |-> IF Caught(thrown) THEN thrown ELSE NoError]

\* lines 289-294 / 340-345: what the try statement leaves in the Result
\* when the invoke ended with thrown (NoError: it returned)
TryResult(thrown) ==
    [success |-> thrown = NoError,
     error   |-> IF Caught(thrown) THEN thrown ELSE NoError]

\* lines 275-308 / 326-359 after the "results" entry was ensured: the world
\* (data store, root handlers) the call leaves, the exception it raises to
\* its caller (NoError when it returns) and the Result it returns.
\*   hid: the MessageHandler built by this call.
Execute(plugin, instance, meth, data, handlers, hid) ==
    LET cls == PluginClasses[plugin]
        m   == cls[meth]
        quiet == [data |-> data, handlers |-> handlers, returned |-> NoResult,
                  bodyRan |-> FALSE, bodyRaised |-> NoError, missing |-> {},
                  attached |-> FALSE, raised |-> NoError]
    IN  IF cls.init = "raise"
        THEN \* plugin() raises before the handler is attached
             [quiet EXCEPT !.raised = Error("InitError", plugin)]
        ELSE
        LET local    == [k \in {"context", "instance"} |->
                            IF k = "context" THEN ContextObj ELSE instance]
            inv      == invoke(local, m)
            bodyRan  == inv.status = "call"
            data2    == IF bodyRan THEN Tamper(m, data) ELSE data
            records  == IF bodyRan THEN BodyRecords(plugin, m) ELSE <<>>
            thrown   == CASE inv.status = "KeyError"  -> Error("KeyError", "invoke")
                          [] inv.status = "TypeError" -> Error("TypeError", "call")
                          [] OTHER                    -> BodyError(plugin, m)
            missing  == {a \in Range(args(m)) : a \notin DOMAIN services(local)}
            bodyRaised == IF bodyRan THEN thrown ELSE NoError
            result   == [success  |-> TryResult(thrown).success,
                         plugin   |-> plugin,
                         instance |-> instance,
                         error    |-> TryResult(thrown).error,
                         records  |-> records,
                         duration |-> (IF bodyRan THEN m.ticks ELSE 0) * 1000]
            after    == [data |-> data2, handlers |-> Append(handlers, hid),
                         returned |-> NoResult, bodyRan |-> bodyRan,
                         bodyRaised |-> bodyRaised, missing |-> missing,
                         attached |-> TRUE, raised |-> NoError]
        IN  IF thrown # NoError /\ ~ Caught(thrown)
            THEN \* not an Exception: leaves the try statement and the call
                 [after EXCEPT !.raised = thrown]
            ELSE IF "results" \notin DOMAIN data2
            THEN \* line 306: context.data("results") is None, None.append
                 [after EXCEPT !.handlers = removeHandler(@, hid),
                               !.raised = Error("AttributeError", "engine")]
            ELSE [after EXCEPT !.handlers = removeHandler(@, hid),
                               !.data = With(data2, "results",
                                             Append(data2["results"], result)),
                               !.returned = result]

Call(op, plugin, instance) ==
    /\ calls < MaxCalls
    /\ LET r == Execute(plugin, instance, op, EnsureResults(ctxData),
                        rootHandlers, calls + 1)
       IN  /\ ctxData' = r.data
           /\ rootHandlers' = r.handlers
           /\ last' = [op |-> op, plugin |-> plugin, instance |-> instance,
                       raised |-> r.raised, returned |-> r.returned,
                       bodyRan |-> r.bodyRan, bodyRaised |-> r.bodyRaised,
                       missing |-> r.missing, attached |-> r.attached,
                       dataBefore |-> ctxData, handlersBefore |-> rootHandlers,
                       prevMissing |-> last.missing]
    /\ calls' = calls + 1
    /\ UNCHANGED nestVars

\* process(plugin, context, instance) -> _process
_process(plugin, instance) ==
    /\ Call("process", plugin, instance)
    /\ UNCHANGED <<_registered_services, providerVars, discoverVars,
                   accessorVars, entityVars>>

\* repair(plugin, context, instance) -> _repair
_repair(plugin, instance) ==
    /\ Call("repair", plugin, instance)
    /\ UNCHANGED <<_registered_services, providerVars, discoverVars,
                   accessorVars, entityVars>>

----------------------------------------------------------------------------
(* Callables handed to Provider.invoke                                     *)
(*                                                                         *)
(* A callable is its declared parameter list and whether it is a bound     *)
(* method (the first parameter is then the receiver, whatever its name).   *)
(* When called it returns a value that tells what it was called with.      *)

Callables ==
    [fNone    |-> [params |-> <<>>,                    bound |-> FALSE],
     fContext |-> [params |-> <<"context">>,           bound |-> FALSE],
     fUser    |-> [params |-> <<"user">>,              bound |-> FALSE],
     fBoth    |-> [params |-> <<"context", "user">>,   bound |-> FALSE],
     mUser    |-> [params |-> <<"self", "user">>,      bound |-> TRUE],
     mCls     |-> [params |-> <<"cls", "context">>,    bound |-> TRUE],
     mThis    |-> [params |-> <<"this", "user">>,      bound |-> TRUE],
     fCls     |-> [params |-> <<"cls">>,               bound |-> FALSE]]

\* objects bound locally with Provider.inject
LocalObjs == {ContextObj, "inst1"}

\* what callable f returns when called with keyword arguments kwargs
CallableResult(f, kwargs) == [from |-> f, kwargs |-> kwargs]

NoValue == CallableResult(None, EmptyDict)

NoInvoke ==
    [func |-> None, status |-> None, received |-> EmptyDict,
     value |-> NoValue, regAt |-> EmptyDict, localAt |-> EmptyDict]

\* Provider.inject
inject(name, obj) ==
    /\ provider' = With(provider, name, obj)
    /\ UNCHANGED <<lastInvoke, _registered_services, engineVars, discoverVars,
                   accessorVars, entityVars>>

\* Provider.invoke(func) on the Provider under test: raises KeyError or the
\* TypeError of the refused call, or calls func and returns what it returns
Invoke(f) ==
    /\ LET inv == invoke(provider, Callables[f])
       IN  lastInvoke' =
             [func |-> f, status |-> inv.status,
              received |-> IF inv.status = "call" THEN inv.inject ELSE EmptyDict,
              value |-> IF inv.status = "call"
                        THEN CallableResult(f, inv.inject) ELSE NoValue,
              regAt |-> _registered_services, localAt |-> provider]
    /\ UNCHANGED <<provider, _registered_services, engineVars, discoverVars,
                   accessorVars, entityVars>>

\* a new Provider(): no local binding
NewProvider ==
    /\ provider' = EmptyDict
    /\ UNCHANGED <<lastInvoke, _registered_services, engineVars, discoverVars,
                   accessorVars, entityVars>>

----------------------------------------------------------------------------
(* Plug-in classes seen by the registry and by discovery                   *)
(*                                                                         *)
(* A class is its __name__, the stage role it subclasses ("Plugin" for a   *)
(* direct subclass of Plugin, "object" for a class that is no Plugin),     *)
(* its hosts and families lists, its requires attribute (a requirement     *)
(* string, or NotAString) and its order (unset is Plugin.order = None).    *)
(* private: the module attribute holding it starts with "_".               *)

Order(n) == [set |-> TRUE, val |-> n]

Unset == [set |-> FALSE, val |-> 0]

NotAString == "<float>"

Class(name, base, hosts, families, requires, order) ==
    [name |-> name, kind |-> "class", base |-> base, hosts |-> hosts,
     families |-> families, requires |-> requires, order |-> order,
     private |-> FALSE]

Classes ==
    [Collect       |-> Class("Collect", "Selector", {"*"}, {"*"}, "pyblish>=1", Order(0)),
     CheckNaming   |-> Class("CheckNaming", "Validator", {"*"}, {"*"}, "pyblish>=1", Order(1)),
     Bare          |-> Class("Bare", "Plugin", {"*"}, {"*"}, "pyblish>=1", Unset),
     BareB         |-> Class("BareB", "Plugin", {"*"}, {"*"}, "pyblish>=1", Unset),
     ExtractUnset  |-> Class("ExtractUnset", "Extractor", {"*"}, {"*"}, "pyblish>=1", Unset),
     CollectV2     |-> Class("Collect", "Selector", {"python"}, {"*"}, "pyblish>=1", Order(0)),
     CheckFamilies |-> Class("CheckFamilies", "Validator", {"*"}, {"model"}, "pyblish>=1", Order(1)),
     MayaOnly      |-> Class("MayaOnly", "Extractor", {"maya"}, {"*"}, "pyblish>=1", Order(2)),
     Future        |-> Class("Future", "Conformer", {"*"}, {"*"}, "pyblish>=99", Order(3)),
     BadRequires   |-> Class("BadRequires", "Selector", {"*"}, {"*"}, NotAString, Order(0)),
     NoHostsSel    |-> Class("NoHostsSel", "Selector", {}, {"*"}, "pyblish>=1", Order(0)),
     NoFamilies    |-> Class("NoFamilies", "Validator", {"*"}, {}, "pyblish>=1", Order(1)),
     NoFamiliesB   |-> Class("NoFamilies", "Validator", {"*"}, {"*"}, "pyblish>=1", Order(1)),
     NoHostsExt    |-> Class("NoHostsExt", "Extractor", {}, {"*"}, "pyblish>=1", Order(2)),
     BothEmpty     |-> Class("BothEmpty", "Extractor", {}, {}, "pyblish>=1", Order(2)),
     NoFamConf     |-> Class("NoFamConf", "Conformer", {"*"}, {}, "pyblish>=1", Order(3)),
     Helper        |-> [Class("Helper", "object", {"*"}, {"*"}, "pyblish>=1", Unset)
                            EXCEPT !.base = "object"],
     Hidden        |-> [Class("_Hidden", "Validator", {"*"}, {"*"}, "pyblish>=1", Order(1))
                            EXCEPT !.private = TRUE],
     NotCallable   |-> [Class("NotCallable", "object", {}, {}, NotAString, Unset)
                            EXCEPT !.kind = "object"]]

\* what register_plugin / deregister_plugin are called with
Registrable == {"Collect", "CheckNaming", "Bare", "CollectV2", "NotCallable"}

\* the files of the plug-in directories: the stage types whose configured
\* regex the file name matches, whether it is a regular file, whether its
\* import succeeds, and the classes its module holds, in dir() order
File(matches, imports, classes) ==
    [matches |-> matches, isfile |-> TRUE, imports |-> imports,
     classes |-> classes]

Dirs ==
    [dirA |-> << File({"validators"}, TRUE,
                      <<"BothEmpty", "NoFamConf", "NoFamilies", "NoHostsExt",
                        "NoHostsSel">>),
                 File({"validators"}, FALSE, <<"CheckNaming">>),
                 File({}, TRUE, <<"Future">>) >>,
     dirB |-> << File({"selectors", "collectors"}, TRUE,
                      <<"BadRequires", "CollectV2", "Future", "Helper",
                        "MayaOnly", "Hidden">>),
                 File({"validators"}, TRUE, <<"CheckFamilies", "NoFamiliesB">>),
                 [File({"extractors"}, TRUE, <<"MayaOnly">>)
                     EXCEPT !.isfile = FALSE] >>]

\* mutant: every stage type stands for the Validator class
types_validators_only ==
    [t \in {"validators", "extractors", "selectors", "integrators",
            "collectors", "conformers"} |-> "Validator"]

\* symbols of the stage types: discover's types table, lines 812-817
types ==
    [validators  |-> "Validator",
     extractors  |-> "Extractor",
     selectors   |-> "Selector",
     integrators |-> "Conformer",
     collectors  |-> "Selector",
     conformers  |-> "Conformer"]

\* the executables the process may run under, with the host words each holds
Executables == {"python2.7", "blender"}

\* re.match(regex, name) for the expressions discover is called with
re_match(regex, name) ==
    CASE regex = "^Check" -> name \in {"CheckNaming", "CheckFamilies"}
      [] OTHER            -> FALSE

\* iscompatible.iscompatible(requirements, version=pyblish.version_info)
iscompatible(requires) == requires = "pyblish>=1"

----------------------------------------------------------------------------
(* Registry                                                  lines 582-715 *)

NoOp ==
    [op |-> None, arg |-> None, type |-> None, regex |-> None,
     paths |-> <<>>, given |-> FALSE, raised |-> None, searched |-> <<>>,
     candidates |-> EmptyDict, unsorted |-> <<>>, result |-> <<>>]

\* the record of a registry call
RegistryOp(op, arg, raised) ==
    [NoOp EXCEPT !.op = op, !.arg = arg, !.raised = raised]

\* register_plugin: TypeError unless the object is callable
register_plugin(plugin) ==
    /\ IF Classes[plugin].kind # "class"
       THEN /\ lastDiscover' = RegistryOp("register_plugin", plugin, "TypeError")
            /\ UNCHANGED _registered_plugins
       ELSE /\ lastDiscover' = RegistryOp("register_plugin", plugin, None)
            /\ _registered_plugins' =
                 With(_registered_plugins, Classes[plugin].name, plugin)
    /\ UNCHANGED _registered_paths

\* deregister_plugin: dict.pop(plugin.__name__), KeyError on an absent name
deregister_plugin(plugin) ==
    /\ IF Classes[plugin].name \notin DOMAIN _registered_plugins
       THEN /\ lastDiscover' = RegistryOp("deregister_plugin", plugin, "KeyError")
            /\ UNCHANGED _registered_plugins
       ELSE /\ lastDiscover' = RegistryOp("deregister_plugin", plugin, None)
            /\ _registered_plugins' =
                 Without(_registered_plugins, Classes[plugin].name)
    /\ UNCHANGED _registered_paths

\* deregister_all_plugins
deregister_all_plugins ==
    /\ lastDiscover' = RegistryOp("deregister_all_plugins", None, None)
    /\ _registered_plugins' = EmptyDict
    /\ UNCHANGED _registered_paths

\* mutant: the path is appended whether or not it is registered
register_plugin_path_always(path) ==
    /\ lastDiscover' = RegistryOp("register_plugin_path", path, None)
    /\ _registered_paths' = Append(_registered_paths, path)
    /\ UNCHANGED _registered_plugins

\* register_plugin_path: warns and returns on a registered path
register_plugin_path(path) ==
    /\ lastDiscover' = RegistryOp("register_plugin_path", path, None)
    /\ _registered_paths' =
         IF path \in Range(_registered_paths)
         THEN _registered_paths ELSE Append(_registered_paths, path)
    /\ UNCHANGED _registered_plugins

\* list.remove(path): the first entry equal to path
list_remove(l, x) ==
    LET i == CHOOSE i \in DOMAIN l : l[i] = x /\ \A j \in 1..(i - 1) : l[j] # x
    IN  SubSeq(l, 1, i - 1) \o SubSeq(l, i + 1, Len(l))

\* deregister_plugin_path: list.remove raises ValueError on an absent path
deregister_plugin_path(path) ==
    /\ IF path \notin Range(_registered_paths)
       THEN /\ lastDiscover' = RegistryOp("deregister_plugin_path", path, "ValueError")
            /\ UNCHANGED _registered_paths
       ELSE /\ lastDiscover' = RegistryOp("deregister_plugin_path", path, None)
            /\ _registered_paths' = list_remove(_registered_paths, path)
    /\ UNCHANGED _registered_plugins

\* deregister_all_paths
deregister_all_paths ==
    /\ lastDiscover' = RegistryOp("deregister_all_paths", None, None)
    /\ _registered_paths' = <<>>
    /\ UNCHANGED _registered_plugins

\* registered_paths: a copy of the list
registered_paths == _registered_paths

\* configured_paths
configured_paths == config_paths

\* environment_paths
environment_paths == environ

RECURSIVE Dedupe(_, _)
\* the loop of plugin_paths: keep the first occurrence of each path
Dedupe(todo, paths) ==
    IF todo = <<>> THEN paths
    ELSE Dedupe(Tail(todo),
                IF Head(todo) \in Range(paths) THEN paths
                ELSE Append(paths, Head(todo)))

\* plugin_paths
plugin_paths ==
    Dedupe(registered_paths \o configured_paths \o environment_paths, <<>>)

----------------------------------------------------------------------------
(* Validity, compatibility and sorting                       lines 900-990 *)

\* plugin_is_valid
plugin_is_valid(plugin) ==
    LET c == Classes[plugin]
    IN  /\ c.kind = "class"
        /\ c.base # "object"
        /\ c.requires # NotAString
        /\ ~ (c.base = "Selector" /\ c.hosts = {})
        /\ ~ (c.base \in {"Validator", "Extractor"}
                /\ c.families = {} /\ c.hosts = {})
        /\ ~ (c.base = "Conformer" /\ c.families = {})

\* version_is_compatible
version_is_compatible(plugin) == iscompatible(Classes[plugin].requires)

\* the host words found in the name of each executable
ExecutableWords == ("python2.7" :> {"python"}) @@ ("blender" :> {})

\* current_host: the first host word the executable holds, in the order the
\* code tests them; "ValueError" stands for the raise of line 579
current_host ==
    LET w == ExecutableWords[executable]
    IN  CASE "python" \in w  -> "python"
          [] "maya" \in w    -> "maya"
          [] "nuke" \in w    -> "nuke"
          [] "modo" \in w    -> "modo"
          [] "houdini" \in w -> "houdini"
          [] OTHER           -> "ValueError"

\* host_is_compatible: the list [..., current_host() in plugin.hosts] is
\* built before any() reads it, so a raise of current_host leaves the call
host_is_compatible(plugin) ==
    IF current_host = "ValueError" THEN "ValueError"
    ELSE IF "*" \in Classes[plugin].hosts \/ current_host \in Classes[plugin].hosts
         THEN "True" ELSE "False"

\* mutant: None sorts above every number
KeyLess_unset_last(a, b) ==
    IF ~ b.set THEN a.set ELSE (a.set /\ a.val < b.val)

\* Python 2's ordering of the sort keys: None sorts below every number
KeyLess(a, b) ==
    IF ~ a.set THEN b.set ELSE (b.set /\ a.val < b.val)

RECURSIVE InsertBeforeEqual(_, _)
\* mutant: x goes before the elements of equal key
InsertBeforeEqual(x, sorted) ==
    IF sorted = <<>> THEN <<x>>
    ELSE IF ~ KeyLess(Classes[Head(sorted)].order, Classes[x].order)
         THEN <<x>> \o sorted
         ELSE <<Head(sorted)>> \o InsertBeforeEqual(x, Tail(sorted))

RECURSIVE InsertByOrder(_, _)
\* x goes behind every element whose key is not greater: list.sort is stable
InsertByOrder(x, sorted) ==
    IF sorted = <<>> THEN <<x>>
    ELSE IF KeyLess(Classes[x].order, Classes[Head(sorted)].order)
         THEN <<x>> \o sorted
         ELSE <<Head(sorted)>> \o InsertByOrder(x, Tail(sorted))

RECURSIVE SortInto(_, _)
SortInto(sorted, rest) ==
    IF rest = <<>> THEN sorted
    ELSE SortInto(InsertByOrder(Head(rest), sorted), Tail(rest))

\* sort: plugins.sort(key=lambda p: p.order)
sort(plugins) == SortInto(<<>>, plugins)

----------------------------------------------------------------------------
(* Discovery                                                 lines 778-897 *)

RECURSIVE ScanClasses_first_wins(_, _)
\* mutant: a name already among the candidates keeps its class
ScanClasses_first_wins(found, classes) ==
    IF classes = <<>> THEN found
    ELSE LET c == Classes[Head(classes)]
         IN  ScanClasses_first_wins(
                 IF \/ c.private \/ c.kind # "class" \/ c.base = "object"
                    \/ c.name \in DOMAIN found
                 THEN found
                 ELSE With(found, c.name, Head(classes)),
                 Tail(classes))

RECURSIVE ScanClasses(_, _)
\* lines 857-869: the classes of one imported module
ScanClasses(found, classes) ==
    IF classes = <<>> THEN found
    ELSE LET c == Classes[Head(classes)]
         IN  ScanClasses(IF c.private \/ c.kind # "class" \/ c.base = "object"
                         THEN found
                         ELSE With(found, c.name, Head(classes)),
                         Tail(classes))

RECURSIVE ScanFiles(_, _, _)
\* lines 832-869: the files of one directory
ScanFiles(found, files, types_to_check) ==
    IF files = <<>> THEN found
    ELSE LET f == Head(files)
         IN  ScanFiles(IF \/ f.matches \cap types_to_check = {}
                          \/ ~ f.isfile
                          \/ ~ f.imports
                       THEN found
                       ELSE ScanClasses(found, f.classes),
                       Tail(files), types_to_check)

RECURSIVE ScanPaths(_, _, _)
\* lines 827-869: the search paths, non-directories skipped
ScanPaths(found, paths, types_to_check) ==
    IF paths = <<>> THEN found
    ELSE ScanPaths(IF Head(paths) \notin DOMAIN Dirs THEN found
                   ELSE ScanFiles(found, Dirs[Head(paths)], types_to_check),
                   Tail(paths), types_to_check)

\* the orders in which a dict of these entries may be iterated
Orderings(S) ==
    {s \in [1..Cardinality(S) -> S] : \A i, j \in DOMAIN s : i # j => s[i] # s[j]}

\* mutant: discovery forgets the registered plug-ins
discovered_plugins_empty == EmptyDict

\* lines 822-823: discovery starts from a copy of the registered plug-ins
discovered_plugins == _registered_plugins

\* discover up to the iteration order of discovered_plugins: the exception
\* raised, the paths searched, the candidates and the classes that pass the
\* filter of lines 873-894.  given: the caller passed a paths argument.
discover(type, regex, given, paths) ==
    IF type # None /\ type \notin DOMAIN types
    THEN [raised |-> "ValueError", searched |-> <<>>,
          candidates |-> EmptyDict, kept |-> {}]
    ELSE
    LET types_to_check == IF type # None THEN {type} ELSE DOMAIN types
        searched   == IF given /\ paths # <<>> THEN paths ELSE plugin_paths
        candidates == ScanPaths(discovered_plugins, searched, types_to_check)
        sound      == {n \in DOMAIN candidates :
                          /\ plugin_is_valid(candidates[n])
                          /\ version_is_compatible(candidates[n])}
        kept       == {n \in sound :
                          /\ host_is_compatible(candidates[n]) = "True"
                          /\ Classes[candidates[n]].base
                               \in {types[t] : t \in types_to_check}
                          /\ (regex = None \/ re_match(regex, n))}
    IN  IF sound # {} /\ current_host = "ValueError"
        THEN [raised |-> "ValueError", searched |-> searched,
              candidates |-> candidates, kept |-> {}]
        ELSE [raised |-> None, searched |-> searched,
              candidates |-> candidates,
              kept |-> {candidates[n] : n \in kept}]

----------------------------------------------------------------------------
(* Registry accessors and what their caller holds            lines 644-715 *)
(*                                                                         *)
(* The value an accessor returns is a list (registered_paths,              *)
(* registered_plugins) or a dict (registered_services); shared tells       *)
(* whether it is the registry's own object or a new one.                   *)

NoHeld == [kind |-> None, list |-> <<>>, dict |-> EmptyDict, shared |-> FALSE]

\* mutant: the accessor hands out the registry's own object
Shared(kind, list, dict) ==
    [kind |-> kind, list |-> list, dict |-> dict, shared |-> TRUE]

\* dict.copy(), list(l), dict.values(): a new object with the same entries
Copied(kind, list, dict) ==
    [kind |-> kind, list |-> list, dict |-> dict, shared |-> FALSE]

\* registered_paths(), called by the holder of held
RegisteredPaths ==
    /\ held' = Copied("paths", registered_paths, EmptyDict)
    /\ lastDiscover' = RegistryOp("registered_paths", None, None)
    /\ UNCHANGED <<_registered_plugins, _registered_paths, others_but_held>>

\* registered_plugins(): the values of the table, in the dict's order
RegisteredPlugins ==
    /\ \E l \in Orderings(Range(_registered_plugins)) :
         held' = Copied("plugins", l, EmptyDict)
    /\ lastDiscover' = RegistryOp("registered_plugins", None, None)
    /\ UNCHANGED <<_registered_plugins, _registered_paths, others_but_held>>

\* registered_services()
RegisteredServices ==
    /\ held' = Copied("services", <<>>, _registered_services)
    /\ lastDiscover' = RegistryOp("registered_services", None, None)
    /\ UNCHANGED <<_registered_plugins, _registered_paths, others_but_held>>

\* what the caller does to the value it holds
Mutations == {"add", "remove", "clear"}

\* the entry the caller adds to a held value of each kind
AddedEntry == [paths |-> "mine", plugins |-> "Bare", services |-> "user"]

\* the held value after the caller's mutation m
Mutated(h, m) ==
    CASE m = "clear" -> [h EXCEPT !.list = <<>>, !.dict = EmptyDict]
      [] m = "remove" ->
           [h EXCEPT !.list = IF h.list = <<>> THEN <<>> ELSE Tail(h.list),
                     !.dict = IF DOMAIN h.dict = {} THEN h.dict
                              ELSE Without(h.dict, CHOOSE k \in DOMAIN h.dict : TRUE)]
      [] OTHER ->
           [h EXCEPT !.list = IF h.kind = "services" THEN <<>>
                              ELSE Append(h.list, AddedEntry[h.kind]),
                     !.dict = IF h.kind = "services"
                              THEN With(h.dict, AddedEntry[h.kind], "svcA")
                              ELSE h.dict]

\* the plug-in table whose values are the classes of the list l
TableOf(l) ==
    [n \in {Classes[P].name : P \in Range(l)} |->
        CHOOSE P \in Range(l) : Classes[P].name = n]

\* The caller mutates the value it holds; when that value is the registry's
\* own object the registry changes with it.
Mutate ==
    /\ held.kind # None
    /\ \E m \in Mutations :
         /\ m = "add" => Len(held.list) < MaxHeldLen
         /\ held' = Mutated(held, m)
         /\ lastDiscover' = RegistryOp("mutate", m, None)
         /\ _registered_paths' =
              IF held.shared /\ held.kind = "paths"
              THEN Mutated(held, m).list ELSE _registered_paths
         /\ _registered_plugins' =
              IF held.shared /\ held.kind = "plugins"
              THEN TableOf(Mutated(held, m).list) ELSE _registered_plugins
         /\ _registered_services' =
              IF held.shared /\ held.kind = "services"
              THEN Mutated(held, m).dict ELSE _registered_services
    /\ UNCHANGED <<engineVars, providerVars, config_paths, environ, executable,
                   entityVars>>

----------------------------------------------------------------------------
(* Entities: Context and Instance                            lines 362-534 *)
(*                                                                         *)
(* entities maps every object to its kind ("Context", "Instance", "object" *)
(* for an object of another class, "free" for an Instance not yet          *)
(* created), its name attribute (None when it has none), its parent, its   *)
(* members (the list it is) and its data store.                            *)

\* the Instances in the order they are created
InstancePool == <<"i1", "i2">>

\* an object that is no entity and has no name attribute
PlainObj == "o1"

Names == {"A", "B"}

Entity(kind, name, parent) ==
    [kind |-> kind, name |-> name, parent |-> parent, members |-> <<>>,
     data |-> EmptyDict]

\* AbstractEntity.__init__ for the one Context; no Instance exists yet
NoEntities ==
    [o \in {ContextObj, PlainObj} \cup Range(InstancePool) |->
        CASE o = ContextObj -> Entity("Context", None, None)
          [] o = PlainObj   -> Entity("object", None, None)
          [] OTHER          -> Entity("free", None, None)]

NoEntityOp == [op |-> None, entity |-> None, arg |-> None, raised |-> None]

EntityOp(op, entity, arg, raised) ==
    [op |-> op, entity |-> entity, arg |-> arg, raised |-> raised]

\* the Instances created so far
Live(es) == {i \in Range(InstancePool) : es[i].kind = "Instance"}

\* getattr(other, "name", None)
getattr_name(es, other) ==
    IF es[other].kind = "Instance" THEN es[other].name ELSE None

\* mutant: instances are equal when they are the same object
eq_identity(es, self, other) == self = other

\* Instance.__eq__
__eq__(es, self, other) == es[self].name = getattr_name(es, other)

\* Instance.__ne__
__ne__(es, self, other) == es[self].name # getattr_name(es, other)

\* a == b as the list methods evaluate it: the method of the Instance among
\* the two, identity when neither is one
Equal(es, a, b) ==
    IF es[a].kind = "Instance" THEN __eq__(es, a, b)
    ELSE IF es[b].kind = "Instance" THEN __eq__(es, b, a)
    ELSE a = b

\* other in self
Contains(es, self, other) ==
    \E i \in DOMAIN es[self].members :
        es[self].members[i] = other \/ Equal(es, es[self].members[i], other)

\* mutant: add appends whatever self holds
add_always(es, self, other) ==
    [es EXCEPT ![self].members = Append(@, other)]

\* AbstractEntity.add: the entities after self.add(other)
add(es, self, other) ==
    IF Contains(es, self, other) THEN es
    ELSE [es EXCEPT ![self].members = Append(@, other)]

\* list.index(other): the first position holding an equal member
index(es, self, other) ==
    CHOOSE i \in DOMAIN es[self].members :
        /\ es[self].members[i] = other \/ Equal(es, es[self].members[i], other)
        /\ \A j \in 1..(i - 1) :
             ~ (es[self].members[j] = other \/ Equal(es, es[self].members[j], other))

\* AbstractEntity.remove: the entities after self.remove(other) returned
remove(es, self, other) ==
    LET i == index(es, self, other)
        m == es[self].members
    IN  [es EXCEPT ![self].members = SubSeq(m, 1, i - 1) \o SubSeq(m, i + 1, Len(m))]

\* AbstractEntity.set_data
set_data(es, self, key, value) ==
    [es EXCEPT ![self].data = With(@, key, value)]

\* Instance.__init__ for the new object self
Instance(es, self, name, parent) ==
    LET made == [es EXCEPT ![self] = Entity("Instance", name, parent)]
    IN  IF parent # None THEN add(made, parent, self) ELSE made

\* the objects that hold members: the Context and the Instances
Holders == {ContextObj} \cup Live(entities)

\* the entities add, remove and set_data are called on
Receivers == {ContextObj, "i1"}

\* the object the next Instance() is
NextInstance == InstancePool[Cardinality(Live(entities)) + 1]

\* Context.create_instance(name)
CreateInstance ==
    /\ Cardinality(Live(entities)) < Len(InstancePool)
    /\ \E name \in Names :
         /\ entities' = Instance(entities, NextInstance, name, ContextObj)
         /\ lastEntity' = EntityOp("create_instance", NextInstance, name, None)
    /\ UNCHANGED <<_registered_services, engineVars, providerVars,
                   discoverVars, accessorVars>>

\* Instance(name, parent=None) and Instance(name, parent=entity)
NewInstance ==
    /\ Cardinality(Live(entities)) < Len(InstancePool)
    /\ \E name \in Names, parent \in {None, ContextObj} \cup Live(entities) :
         /\ entities' = Instance(entities, NextInstance, name, parent)
         /\ lastEntity' = EntityOp("Instance", NextInstance, name, None)
    /\ UNCHANGED <<_registered_services, engineVars, providerVars,
                   discoverVars, accessorVars>>

\* entity.add(other) for a Context or Instance and an Instance or object
Add ==
    /\ \E self \in Receivers \cap Holders,
          other \in {PlainObj} \cup Live(entities) :
         /\ entities' = add(entities, self, other)
         /\ lastEntity' = EntityOp("add", self, other, None)
    /\ UNCHANGED <<_registered_services, engineVars, providerVars,
                   discoverVars, accessorVars>>

\* entity.remove(other): ValueError of list.index when no member is equal
Remove ==
    /\ \E self \in Receivers \cap Holders,
          other \in {PlainObj} \cup Live(entities) :
         IF Contains(entities, self, other)
         THEN /\ entities' = remove(entities, self, other)
              /\ lastEntity' = EntityOp("remove", self, other, None)
         ELSE /\ entities' = entities
              /\ lastEntity' = EntityOp("remove", self, other, "ValueError")
    /\ UNCHANGED <<_registered_services, engineVars, providerVars,
                   discoverVars, accessorVars>>

\* entity.set_data("k", "v")
SetData ==
    /\ \E self \in Receivers \cap Holders :
         /\ entities' = set_data(entities, self, "k", "v")
         /\ lastEntity' = EntityOp("set_data", self, "k", None)
    /\ UNCHANGED <<_registered_services, engineVars, providerVars,
                   discoverVars, accessorVars>>

----------------------------------------------------------------------------
(* Initial state and the engine's specification                            *)

NoCall ==
    [op |-> None, plugin |-> None, instance |-> None, raised |-> NoError,
     returned |-> NoResult, bodyRan |-> FALSE, bodyRaised |-> NoError,
     missing |-> {}, attached |-> FALSE, dataBefore |-> EmptyDict,
     handlersBefore |-> <<>>, prevMissing |-> {}]

\* no step of a re-entrant run was made yet
NoStep ==
    [op |-> None, hid |-> 0, base |-> <<>>, raised |-> NoError,
     returned |-> NoResult]

\* The registries start empty (pyblish/__init__), the Context is new; the
\* host application has attached a handler of its own (handler 0) to the
\* root logger.
InitCommon ==
    /\ _registered_services = EmptyDict
    /\ ctxData = EmptyDict
    /\ rootHandlers = <<0>>
    /\ calls = 0
    /\ last = NoCall
    /\ provider = EmptyDict
    /\ lastInvoke = NoInvoke
    /\ _registered_plugins = EmptyDict
    /\ _registered_paths = <<>>
    /\ lastDiscover = NoOp
    /\ held = NoHeld
    /\ entities = NoEntities
    /\ lastEntity = NoEntityOp
    /\ stack = <<>>
    /\ log = <<>>
    /\ lastNest = NoStep

\* The engine and the Provider read neither the search paths nor the host.
Init ==
    /\ InitCommon
    /\ config_paths = <<>>
    /\ environ = <<>>
    /\ executable = "python2.7"

RegisterService ==
    /\ \E name \in ServiceNames, obj \in ServiceObjs : register_service(name, obj)
    /\ UNCHANGED <<engineVars, providerVars, discoverVars, accessorVars,
                   entityVars>>

DeregisterService ==
    /\ \E name \in ServiceNames : deregister_service(name)
    /\ UNCHANGED <<engineVars, providerVars, discoverVars, accessorVars,
                   entityVars>>

DeregisterAllServices ==
    /\ deregister_all_services
    /\ UNCHANGED <<engineVars, providerVars, discoverVars, accessorVars,
                   entityVars>>

Process == \E plugin \in Plugins, instance \in Instances : _process(plugin, instance)

Repair == \E plugin \in Plugins, instance \in Instances : _repair(plugin, instance)

Next ==
    \/ Process
    \/ Repair
    \/ RegisterService
    \/ DeregisterService
    \/ DeregisterAllServices

Spec == Init /\ [][Next]_vars

----------------------------------------------------------------------------
(* Claims about the execution engine (checked under Spec)                  *)

\* the "results" list of a data store, empty when the entry is absent
ResultsOf(data) == IF "results" \in DOMAIN data THEN data["results"] ELSE <<>>

\* the last call returned a Result, which is now the last entry of the
\* context's results, one longer than before the call
AppendedOne ==
    /\ last.raised = NoError
    /\ last.returned # NoResult
    /\ "results" \in DOMAIN ctxData
    /\ Len(ctxData["results"]) = Len(ResultsOf(last.dataBefore)) + 1
    /\ ctxData["results"][Len(ctxData["results"])] = last.returned

\* C1: whenever the process (resp. repair) method of the plug-in ran and
\* raised, the call returned a Result with success = False whose error is
\* that very failure, the context's results grew by exactly that Result,
\* and the call itself did not raise.
C1_RaisingBodyIsRecorded ==
    (last.op # None /\ last.bodyRaised # NoError)
        => /\ AppendedOne
           /\ last.returned.success = FALSE
           /\ last.returned.error = last.bodyRaised

\* C2: every process/repair call returns a Result and raises nothing,
\* whatever the plug-in does.
C2_CallNeverRaises ==
    last.op # None => (last.raised = NoError /\ last.returned # NoResult)

\* C3: the results list is created by the first call and after n calls
\* holds exactly n Results: each call leaves the entries that were there
\* and appends the Result it returns.
C3_ResultsAppendOnly ==
    calls > 0
        => /\ "results" \in DOMAIN ctxData
           /\ Len(ctxData["results"]) = calls
           /\ SubSeq(ctxData["results"], 1, calls - 1) = ResultsOf(last.dataBefore)
           /\ ctxData["results"][calls] = last.returned

\* C4: after every process/repair call, however it ended, the root logger
\* has the handlers it had before the call.
C4_HandlerDetached ==
    last.op # None => rootHandlers = last.handlersBefore

----------------------------------------------------------------------------
(* The Provider's specification and its claims                             *)

ProviderInject == \E name \in ServiceNames, obj \in LocalObjs : inject(name, obj)

ProviderInvoke == \E f \in DOMAIN Callables : Invoke(f)

ProviderNext ==
    \/ ProviderInject
    \/ ProviderInvoke
    \/ NewProvider
    \/ RegisterService
    \/ DeregisterService
    \/ DeregisterAllServices

ProviderSpec == Init /\ [][ProviderNext]_vars

\* the parameters a callable declares, the receiver of a bound method aside
Declared(f) ==
    LET c == Callables[f]
    IN  IF c.bound THEN Range(Tail(c.params)) ELSE Range(c.params)

\* the names available at the last invoke: registry and local bindings
AvailableAt(i) == DOMAIN i.regAt \cup DOMAIN i.localAt

\* C5: an invoke of a callable that declares a parameter (other than the
\* receiver) naming no available service fails with KeyError, and the
\* callable is not called.
C5_UnavailableIsKeyError ==
    (lastInvoke.func # None /\ ~ (Declared(lastInvoke.func) \subseteq AvailableAt(lastInvoke)))
        => /\ lastInvoke.status = "KeyError"
           /\ lastInvoke.value = NoValue

\* C7: when invoke calls the callable, the keyword arguments are exactly
\* the declared names, each bound to the local object when the Provider
\* holds one and else to the object the registry holds at that moment, and
\* invoke returns the callable's result.
C7_LiveOverlay ==
    (lastInvoke.func # None /\ lastInvoke.status = "call")
        => /\ DOMAIN lastInvoke.received = Declared(lastInvoke.func)
           /\ \A k \in DOMAIN lastInvoke.received :
                lastInvoke.received[k] =
                    IF k \in DOMAIN lastInvoke.localAt
                    THEN lastInvoke.localAt[k] ELSE lastInvoke.regAt[k]
           /\ lastInvoke.value = CallableResult(lastInvoke.func, lastInvoke.received)

\* C7 witness: a call that got one name from the registry and one, bound in
\* both places, from the Provider.
C7_Witness ==
    /\ lastInvoke.func = "fBoth"
    /\ lastInvoke.status = "call"
    /\ "context" \in DOMAIN lastInvoke.localAt \cap DOMAIN lastInvoke.regAt
    /\ "user" \in DOMAIN lastInvoke.regAt \ DOMAIN lastInvoke.localAt
    /\ lastInvoke.received["context"] = ContextObj
    /\ lastInvoke.received["user"] = "svcB"

----------------------------------------------------------------------------
(* The registry's and discovery's specification                            *)

\* sort is called with lists of up to MaxSortLen distinct classes
MaxSortLen == 2

SortClasses == {"Collect", "CollectV2", "CheckNaming", "Bare"}

SortInputs ==
    UNION {Orderings(S) : S \in {T \in SUBSET SortClasses : Cardinality(T) <= MaxSortLen}}

\* what register_plugin_path / deregister_plugin_path are called with
RegistrablePaths == {"dirA"}

\* the arguments discover is called with
TypeArgs == {None, "validators", "plugins"}

RegexArgs == {None, "^Check"}

PathArgs ==
    {[given |-> FALSE, paths |-> <<>>],
     [given |-> TRUE, paths |-> <<>>],
     [given |-> TRUE, paths |-> <<"nodir", "dirB">>]}

\* The search paths of the configuration and of the environment and the
\* executable are fixed when the process starts.
DiscoverInit ==
    /\ InitCommon
    /\ config_paths \in {<<>>, <<"dirB">>}
    /\ environ = <<>>
    /\ executable \in Executables

others == <<_registered_services, engineVars, providerVars, config_paths,
            environ, executable, accessorVars, entityVars>>

RegisterPlugin ==
    /\ \E plugin \in Registrable : register_plugin(plugin)
    /\ UNCHANGED others

DeregisterPlugin ==
    /\ \E plugin \in Registrable : deregister_plugin(plugin)
    /\ UNCHANGED others

DeregisterAllPlugins ==
    /\ deregister_all_plugins
    /\ UNCHANGED others

RegisterPluginPath ==
    /\ \E path \in RegistrablePaths : register_plugin_path(path)
    /\ UNCHANGED others

DeregisterPluginPath ==
    /\ \E path \in RegistrablePaths : deregister_plugin_path(path)
    /\ UNCHANGED others

DeregisterAllPaths ==
    /\ deregister_all_paths
    /\ UNCHANGED others

\* discover(type, regex, paths): the filtered candidates, met in whatever
\* order the dict yields them, sorted in place and returned
Discover ==
    /\ \E type \in TypeArgs, regex \in RegexArgs, p \in PathArgs :
         LET d == discover(type, regex, p.given, p.paths)
         IN  \E unsorted \in Orderings(d.kept) :
               lastDiscover' =
                 [NoOp EXCEPT !.op = "discover", !.type = type,
                              !.regex = regex, !.given = p.given,
                              !.paths = p.paths, !.raised = d.raised,
                              !.searched = d.searched,
                              !.candidates = d.candidates,
                              !.unsorted = unsorted,
                              !.result = sort(unsorted)]
    /\ UNCHANGED <<_registered_plugins, _registered_paths, others>>

\* sort(plugins) on a list of the caller's
Sort ==
    /\ \E plugins \in SortInputs :
         lastDiscover' = [NoOp EXCEPT !.op = "sort", !.unsorted = plugins,
                                      !.result = sort(plugins)]
    /\ UNCHANGED <<_registered_plugins, _registered_paths, others>>

DiscoverNext ==
    \/ RegisterPlugin
    \/ DeregisterPlugin
    \/ DeregisterAllPlugins
    \/ RegisterPluginPath
    \/ DeregisterPluginPath
    \/ DeregisterAllPaths
    \/ Discover
    \/ Sort

DiscoverSpec == DiscoverInit /\ [][DiscoverNext]_vars

----------------------------------------------------------------------------
(* Claims about the registry and discovery (checked under DiscoverSpec)    *)

StageRoles == {"Selector", "Validator", "Extractor", "Conformer"}

\* the class passes the three checks of discovery
Eligible(P) ==
    /\ plugin_is_valid(P)
    /\ version_is_compatible(P)
    /\ host_is_compatible(P) = "True"

\* the registry holds class P
Holds(P) ==
    /\ Classes[P].name \in DOMAIN _registered_plugins
    /\ _registered_plugins[Classes[P].name] = P

\* the last call was discover and it returned a list
Discovered == lastDiscover.op = "discover" /\ lastDiscover.raised = None

\* the last call was discover with no type, no regex and no paths
PlainCalled ==
    /\ lastDiscover.op = "discover"
    /\ lastDiscover.type = None
    /\ lastDiscover.regex = None
    /\ ~ lastDiscover.given

\* ... and it returned a list
PlainDiscovered == PlainCalled /\ Discovered

\* the class names the files searched by the last discover provide
ProvidedNames ==
    DOMAIN ScanPaths(EmptyDict, lastDiscover.searched,
                     IF lastDiscover.type # None THEN {lastDiscover.type}
                     ELSE DOMAIN types)

\* C8, second half: a successful deregister_plugin(P) leaves no class
\* registered under P's name, and a discover whose search paths provide no
\* class of that name returns no class that is not registered.
C8_Deregistered ==
    /\ (lastDiscover.op = "deregister_plugin" /\ lastDiscover.raised = None)
         => Classes[lastDiscover.arg].name \notin DOMAIN _registered_plugins
    /\ Discovered
         => \A P \in Registrable :
              (~ Holds(P) /\ Classes[P].name \notin ProvidedNames)
                 => P \notin Range(lastDiscover.result)

\* C8 as claimed: discover() returns every registered class that passes
\* plugin_is_valid, version_is_compatible and host_is_compatible.
C8_Original ==
    /\ PlainCalled
         => \A P \in Registrable :
              (Holds(P) /\ Eligible(P))
                 => /\ lastDiscover.raised = None
                    /\ P \in Range(lastDiscover.result)
    /\ C8_Deregistered

\* C8 as amended: discover() returns every registered class of one of the
\* four stage roles that passes the three checks, unless a searched file
\* provides a class of the same name; and the second half as claimed.
C8_RoundTrip ==
    /\ PlainCalled
         => \A P \in Registrable :
              (/\ Holds(P)
               /\ Eligible(P)
               /\ Classes[P].base \in StageRoles
               /\ Classes[P].name \notin ProvidedNames)
                 => /\ lastDiscover.raised = None
                    /\ P \in Range(lastDiscover.result)
    /\ C8_Deregistered

\* C8 witness: discover() searched a directory and returned the registered
\* Collect.
C8_Witness ==
    /\ PlainDiscovered
    /\ Holds("Collect")
    /\ lastDiscover.searched = <<"dirA">>
    /\ "Collect" \in Range(lastDiscover.result)

\* the position of x in the list l
Pos(l, x) == CHOOSE i \in DOMAIN l : l[i] = x

\* C9: the list sort is given and the list discover filters come back as a
\* permutation, non-decreasing in order, classes of equal order in the
\* order they were met; and with exactly Collect and CheckNaming as
\* candidates discover() returns [Collect, CheckNaming].
C9_SortStable ==
    /\ ((lastDiscover.op = "sort" \/ Discovered)
         => LET u == lastDiscover.unsorted
                r == lastDiscover.result
            IN  /\ Len(r) = Len(u)
                /\ Range(r) = Range(u)
                /\ \A i, j \in DOMAIN r :
                     i < j => /\ ~ KeyLess(Classes[r[j]].order, Classes[r[i]].order)
                              /\ (Classes[r[i]].order = Classes[r[j]].order
                                    => Pos(u, r[i]) < Pos(u, r[j])))
    /\ (PlainDiscovered
         /\ DOMAIN lastDiscover.candidates = {"Collect", "CheckNaming"}
         /\ lastDiscover.candidates["Collect"] = "Collect")
         => lastDiscover.result = <<"Collect", "CheckNaming">>

\* C9 witness: discover met validators of order 1 before a selector of
\* order 0, and returned the selector first and the validators as met.
C9_Witness ==
    /\ PlainDiscovered
    /\ lastDiscover.unsorted = <<"CheckFamilies", "CheckNaming", "CollectV2", "NoFamiliesB">>
    /\ lastDiscover.result = <<"CollectV2", "CheckFamilies", "CheckNaming", "NoFamiliesB">>

\* the role's mandatory-field rule of the claim is broken
RuleBroken(P) ==
    LET c == Classes[P]
    IN  \/ c.base = "Selector" /\ c.hosts = {}
        \/ c.base \in {"Validator", "Extractor"} /\ (c.hosts = {} \/ c.families = {})
        \/ c.base = "Conformer" /\ c.families = {}

\* C10: every candidate of a discover that breaks its role's
\* mandatory-field rule is rejected by plugin_is_valid and is not in the
\* list discover returns.
C10_MandatoryFields ==
    Discovered
        => \A n \in DOMAIN lastDiscover.candidates :
             RuleBroken(lastDiscover.candidates[n])
                => /\ ~ plugin_is_valid(lastDiscover.candidates[n])
                   /\ lastDiscover.candidates[n] \notin Range(lastDiscover.result)

\* the stage types whose files the last discover looked for
TypesChecked ==
    IF lastDiscover.type # None THEN {lastDiscover.type} ELSE DOMAIN types

\* the last call was discover with a type it accepts
DiscoverCalled ==
    /\ lastDiscover.op = "discover"
    /\ (lastDiscover.type = None \/ lastDiscover.type \in DOMAIN types)

\* C11: host_is_compatible(P) is true iff "*" or the detected host is in
\* P.hosts and is false, not a raise, when no host is detected, for every
\* candidate P of a discover called with an accepted type; and that
\* discover returns a list.
C11_HostCheckTotal ==
    DiscoverCalled
        => /\ \A n \in DOMAIN lastDiscover.candidates :
                host_is_compatible(lastDiscover.candidates[n]) =
                   IF \/ "*" \in Classes[lastDiscover.candidates[n]].hosts
                      \/ /\ current_host # "ValueError"
                         /\ current_host \in Classes[lastDiscover.candidates[n]].hosts
                   THEN "True" ELSE "False"
           /\ lastDiscover.raised = None

\* the classes a file hands to discovery when it is scanned for the stage
\* types ttc, in the order they are met
ScannedOfFile(f, ttc) ==
    IF f.matches \cap ttc = {} \/ ~ f.isfile \/ ~ f.imports THEN <<>>
    ELSE SelectSeq(f.classes,
                   LAMBDA c : /\ ~ Classes[c].private
                              /\ Classes[c].kind = "class"
                              /\ Classes[c].base # "object")

RECURSIVE Concat(_)
Concat(ss) == IF ss = <<>> THEN <<>> ELSE Head(ss) \o Concat(Tail(ss))

ScannedOfDir(d, ttc) ==
    IF d \notin DOMAIN Dirs THEN <<>>
    ELSE Concat([i \in DOMAIN Dirs[d] |-> ScannedOfFile(Dirs[d][i], ttc)])

\* the classes the last discover met in the files it searched, in order
Scanned ==
    Concat([i \in DOMAIN lastDiscover.searched |->
               ScannedOfDir(lastDiscover.searched[i], TypesChecked)])

\* the files the last discover tried to import and could not
FailedFiles ==
    {f \in UNION {Range(Dirs[d]) : d \in Range(lastDiscover.searched) \cap DOMAIN Dirs} :
        f.matches \cap TypesChecked # {} /\ f.isfile /\ ~ f.imports}

\* class P passes the filter of the last discover
PassesFilter(P) ==
    /\ Eligible(P)
    /\ Classes[P].base \in (IF lastDiscover.type = None THEN StageRoles
                             ELSE {types[lastDiscover.type]})
    /\ (lastDiscover.regex = None \/ re_match(lastDiscover.regex, Classes[P].name))

\* C12: a discover that met a file whose import fails returns a list, the
\* list holds every class of the files that import which passes the filter
\* and is the last of its name, and the failing file contributes no
\* candidate.
C12_ImportFailureSkipped ==
    (DiscoverCalled /\ FailedFiles # {})
        => /\ lastDiscover.raised = None
           /\ \A i \in DOMAIN Scanned :
                (/\ PassesFilter(Scanned[i])
                 /\ \A j \in DOMAIN Scanned :
                      j > i => Classes[Scanned[j]].name # Classes[Scanned[i]].name)
                   => Scanned[i] \in Range(lastDiscover.result)
           /\ \A f \in FailedFiles : \A c \in Range(f.classes) :
                (c \in Range(lastDiscover.candidates))
                   => (c \in Range(Scanned) \/ Holds(c))

\* C14: deregister_plugin_path of a path that is not registered fails with
\* KeyError.
C14_AbsentPathKeyError ==
    (lastDiscover.op = "deregister_plugin_path" /\ lastDiscover.raised # None)
        => lastDiscover.raised = "KeyError"

\* C19: the list a discover returns holds exactly the candidates that are
\* valid, version-compatible, host-compatible, of the requested stage type
\* (of one of the four stage roles when no type is given) and of a name
\* matching the regex when one is given; no class occurs twice in it and no
\* two of its classes share a name.
C19_FilterExact ==
    Discovered
        => LET r == lastDiscover.result
               c == lastDiscover.candidates
           IN  /\ Range(r) = {c[n] : n \in {k \in DOMAIN c : PassesFilter(c[k])}}
               /\ \A i, j \in DOMAIN r :
                    i # j => /\ r[i] # r[j]
                             /\ Classes[r[i]].name # Classes[r[j]].name

\* C19 witness: discover("validators", "^Check") met validators whose name
\* does not match, a selector and unsound classes, and returned the two
\* matching validators.
C19_Witness ==
    /\ Discovered
    /\ lastDiscover.type = "validators"
    /\ lastDiscover.regex = "^Check"
    /\ Range(lastDiscover.result) = {"CheckNaming", "CheckFamilies"}
    /\ "NoFamilies" \in DOMAIN lastDiscover.candidates
    /\ "Collect" \in DOMAIN lastDiscover.candidates

\* the positions of the classes named n among the classes the files gave
ScannedAs(n) == {i \in DOMAIN Scanned : Classes[Scanned[i]].name = n}

\* the greatest element of a nonempty set of numbers
Max(S) == CHOOSE x \in S : \A y \in S : y <= x

\* C20: in the candidates of a discover each name stands for the class of
\* that name met last: the last one the searched files define and, when
\* they define none, the registered one; the returned list holds no other
\* class of that name; and the discover call leaves the registered
\* plug-ins unchanged.
C20_LastDiscoveryWins ==
    /\ [](DiscoverCalled
            => /\ \A n \in {Classes[P].name : P \in DOMAIN Classes} :
                    IF ScannedAs(n) # {}
                    THEN /\ n \in DOMAIN lastDiscover.candidates
                         /\ lastDiscover.candidates[n] = Scanned[Max(ScannedAs(n))]
                    ELSE IF n \in DOMAIN _registered_plugins
                         THEN /\ n \in DOMAIN lastDiscover.candidates
                              /\ lastDiscover.candidates[n] = _registered_plugins[n]
                         ELSE n \notin DOMAIN lastDiscover.candidates
               /\ \A P \in Range(lastDiscover.result) :
                    lastDiscover.candidates[Classes[P].name] = P)
    /\ [][lastDiscover'.op = "discover" => _registered_plugins' = _registered_plugins]_vars

\* C20 witness: Collect is registered, dirA and dirB both define a class
\* named NoFamilies and dirB one named Collect; discover returned the
\* classes of dirB.
C20_Witness ==
    /\ PlainDiscovered
    /\ Holds("Collect")
    /\ lastDiscover.searched = <<"dirA", "dirB">>
    /\ {"CollectV2", "NoFamiliesB"} \subseteq Range(lastDiscover.result)
    /\ {"Collect", "NoFamilies"} \cap Range(lastDiscover.result) = {}

----------------------------------------------------------------------------
(* The path registry's and the accessors' specification and its claims     *)

\* the paths registered and deregistered
RegistryPaths == {"dirA", "dirB"}

RegistryRegisterPath ==
    /\ \E path \in RegistryPaths : register_plugin_path(path)
    /\ UNCHANGED others

RegistryDeregisterPath ==
    /\ \E path \in RegistryPaths : deregister_plugin_path(path)
    /\ UNCHANGED others

RegistryRegisterPlugin ==
    /\ \E plugin \in {"Collect", "CheckNaming"} : register_plugin(plugin)
    /\ UNCHANGED others

RegistryRegisterService ==
    /\ register_service("user", "svcA")
    /\ lastDiscover' = RegistryOp("register_service", "user", None)
    /\ UNCHANGED <<_registered_plugins, _registered_paths, engineVars,
                   providerVars, config_paths, environ, executable,
                   accessorVars, entityVars>>

RegistryNext ==
    \/ RegistryRegisterPath
    \/ RegistryDeregisterPath
    \/ DeregisterAllPaths
    \/ RegistryRegisterPlugin
    \/ RegistryRegisterService
    \/ RegisteredPaths
    \/ RegisteredPlugins
    \/ RegisteredServices
    \/ Mutate

RegistrySpec == Init /\ [][RegistryNext]_vars

\* no path is registered twice
NoDuplicatePaths ==
    \A i, j \in DOMAIN _registered_paths :
        i # j => _registered_paths[i] # _registered_paths[j]

\* what a call on the path registry does to the list: a path that is there
\* changes nothing, a new path goes to the end, a deregistered path leaves
\* and the others keep their order
PathStep ==
    /\ lastDiscover'.op = "register_plugin_path"
         => /\ lastDiscover'.raised = None
            /\ _registered_paths' =
                 IF lastDiscover'.arg \in Range(_registered_paths)
                 THEN _registered_paths
                 ELSE Append(_registered_paths, lastDiscover'.arg)
    /\ (lastDiscover'.op = "deregister_plugin_path" /\ lastDiscover'.raised = None)
         => _registered_paths' =
               SelectSeq(_registered_paths, LAMBDA q : q # lastDiscover'.arg)
    /\ lastDiscover'.op = "deregister_all_paths" => _registered_paths' = <<>>

\* C13: register_plugin_path of a registered path leaves the list as it is
\* and does not raise; a new path is appended; so through every sequence
\* of register_plugin_path / deregister_plugin_path / deregister_all_paths
\* the list holds no path twice and the paths stand in the order they were
\* registered.
C13_RegisterPathIdempotent ==
    [] NoDuplicatePaths /\ [][PathStep]_vars

\* C13 witness: dirA was registered again while it stood before dirB.
C13_Witness ==
    /\ lastDiscover.op = "register_plugin_path"
    /\ lastDiscover.arg = "dirA"
    /\ _registered_paths = <<"dirA", "dirB">>

\* the value the last accessor call returned is the registry's table
AccessorReturnsTable ==
    /\ lastDiscover.op = "registered_paths" => held.list = _registered_paths
    /\ lastDiscover.op = "registered_plugins"
         => /\ Range(held.list) = Range(_registered_plugins)
            /\ Len(held.list) = Cardinality(DOMAIN _registered_plugins)
    /\ lastDiscover.op = "registered_services" => held.dict = _registered_services

\* a mutation of the held value by its caller leaves the three tables as
\* they were, and with them everything discover reads
MutationIsLocal ==
    (lastDiscover'.op = "mutate" /\ held' # held)
        => UNCHANGED <<_registered_paths, _registered_plugins,
                       _registered_services, config_paths, environ, executable>>

\* C15: whatever the caller does to the value an accessor returned, the
\* registry's tables and the result of discover stay as they were, and the
\* next accessor call returns the table.
C15_AccessorsCopy ==
    [] AccessorReturnsTable /\ [][MutationIsLocal]_vars

\* C15 witness: the caller cleared the list registered_paths returned
\* while two paths are registered.
C15_Witness ==
    /\ lastDiscover.op = "mutate"
    /\ held.kind = "paths"
    /\ held.list = <<>>
    /\ Len(_registered_paths) = 2

----------------------------------------------------------------------------
(* The entities' specification and its claims                              *)

EntityNext ==
    \/ CreateInstance
    \/ NewInstance
    \/ Add
    \/ Remove
    \/ SetData

EntitySpec == Init /\ [][EntityNext]_vars

\* no two members of an entity are equal
NoEqualMembers ==
    \A e \in Holders : \A i, j \in DOMAIN entities[e].members :
        i # j => /\ entities[e].members[i] # entities[e].members[j]
                 /\ ~ Equal(entities, entities[e].members[i], entities[e].members[j])

\* what add and remove do to the entity they are called on
MemberStep ==
    LET e == lastEntity'.entity
        x == lastEntity'.arg
    IN  /\ lastEntity'.op = "add"
          => /\ lastEntity'.raised = None
             /\ entities' =
                  [entities EXCEPT ![e].members =
                      IF Contains(entities, e, x) THEN @ ELSE Append(@, x)]
        /\ lastEntity'.op = "remove"
          => IF Contains(entities, e, x)
             THEN /\ lastEntity'.raised = None
                  /\ Len(entities'[e].members) = Len(entities[e].members) - 1
                  /\ Range(entities'[e].members) \subseteq Range(entities[e].members)
                  /\ ~ Contains(entities', e, x)
                  /\ \A o \in DOMAIN entities :
                       /\ entities'[o].data = entities[o].data
                       /\ o # e => entities'[o] = entities[o]
             ELSE /\ lastEntity'.raised = "ValueError"
                  /\ entities' = entities

\* C16: through every sequence of add and remove calls no two members of
\* an entity are equal; add of an object equal to a member leaves the
\* members as they are; remove of an object equal to no member fails and
\* leaves them as they are; and neither changes a data store.
C16_MembershipIsSet ==
    [] NoEqualMembers /\ [][MemberStep]_vars

\* C16 witness: a second Instance named A was added to a Context holding
\* an Instance named A, an object and data, and the Context kept its two
\* members.
C16_Witness ==
    /\ lastEntity.op = "add"
    /\ lastEntity.entity = ContextObj
    /\ lastEntity.arg = "i2"
    /\ entities[ContextObj].members = <<PlainObj, "i1">>
    /\ entities["i1"].name = "A"
    /\ entities["i2"].name = "A"
    /\ entities[ContextObj].data # EmptyDict

\* C17: the Instance a create_instance or Instance(name, parent) call
\* returned is a member of its parent.
C17_ContextOwnsInstances ==
    (lastEntity.op \in {"create_instance", "Instance"}
       /\ entities[lastEntity.entity].parent # None)
        => lastEntity.entity
              \in Range(entities[entities[lastEntity.entity].parent].members)

\* C18: == between two Instances holds exactly when their names are equal,
\* != is its negation against every object, and no Instance equals an
\* object without a name attribute.
C18_EqualityByName ==
    \A a \in Live(entities) :
        /\ \A b \in Live(entities) :
             __eq__(entities, a, b) <=> (entities[a].name = entities[b].name)
        /\ \A x \in DOMAIN entities :
             entities[x].kind # "free"
                => (__ne__(entities, a, x) <=> ~ __eq__(entities, a, x))
        /\ \A x \in DOMAIN entities :
             entities[x].kind \in {"Context", "object"} => ~ __eq__(entities, a, x)

\* C18 witness: two live Instances of one name that differ in parent, in
\* members and in data, so that equality by name is all that relates them.
C18_Witness ==
    /\ Live(entities) = {"i1", "i2"}
    /\ entities["i1"].name = entities["i2"].name
    /\ entities["i1"].parent # entities["i2"].parent
    /\ entities["i1"].members # entities["i2"].members
    /\ entities["i1"].data # entities["i2"].data

----------------------------------------------------------------------------
(* Claims about the directories discover searches                          *)

\* the paths of the three sources, in the order plugin_paths reads them
AllSources == _registered_paths \o config_paths \o environ

\* the least element of a nonempty set of numbers
Min(S) == CHOOSE x \in S : \A y \in S : x <= y

\* l lists every path of src once, in the order of first occurrence in src
FirstOccurrences(l, src) ==
    /\ Range(l) = Range(src)
    /\ \A i, j \in DOMAIN l : l[i] = l[j] => i = j
    /\ \A i, j \in DOMAIN l :
         i < j => Min({k \in DOMAIN src : src[k] = l[i]})
                    < Min({k \in DOMAIN src : src[k] = l[j]})

\* C21: a discover given an explicit path list, the empty list included,
\* searches exactly the paths of that list; a discover given none searches
\* the registered, configured and environment paths, each once, in the
\* order of their first occurrence.
C21_SearchedPaths ==
    DiscoverCalled
        => IF lastDiscover.given
           THEN lastDiscover.searched = lastDiscover.paths
           ELSE FirstOccurrences(lastDiscover.searched, AllSources)

----------------------------------------------------------------------------
(* Re-entrant execution                                      lines 253-359 *)
(*                                                                         *)
(* _process and _repair taken step by step, so that a running body can     *)
(* call process/repair again.  A class's Method fixes how its body ends    *)
(* and what it does to the "results" entry when it ends; what the body     *)
(* does before that is chosen step by step: it emits log records, calls    *)
(* process/repair, and catches or lets pass what such a call raises.       *)

\* log records emitted in one run
MaxLog == 2

\* the process/repair calls made in these runs
NestCalls ==
    {[op |-> "process", plugin |-> "Good",      instance |-> None],
     [op |-> "process", plugin |-> "Boom",      instance |-> "inst1"],
     [op |-> "process", plugin |-> "Exiter",    instance |-> None],
     [op |-> "repair",  plugin |-> "Dropper",   instance |-> None],
     [op |-> "process", plugin |-> "BadInit",   instance |-> None],
     [op |-> "repair",  plugin |-> "BadInit",   instance |-> "inst1"]}

\* a call between lines 287 and 289 (338 and 340): its handler hid, the
\* records list the handler appends to, the root handlers it found (base)
\* and the exception a call made by its body has just raised into the body
Frame(hid, c, base) ==
    [hid |-> hid, op |-> c.op, plugin |-> c.plugin, instance |-> c.instance,
     base |-> base, records |-> <<>>, pending |-> NoError]

\* the innermost running call and its callers
Top == stack[Len(stack)]

Popped == SubSeq(stack, 1, Len(stack) - 1)

\* an exception leaving a call arrives in the body of the caller
Deliver(e, frames) ==
    IF e = NoError \/ frames = <<>> THEN frames
    ELSE [frames EXCEPT ![Len(frames)].pending = e]

\* the handlers of the calls that are running
Active == {stack[i].hid : i \in DOMAIN stack}

\* lines 263-287 (314-338), and the rest of the call when plugin() raises
\* or provider.invoke fails before the body runs
NestEnter ==
    /\ calls < MaxCalls
    /\ stack # <<>> => Top.pending = NoError
    /\ \E c \in NestCalls :
         LET hid  == calls + 1
             data == EnsureResults(ctxData)
             r    == Execute(c.plugin, c.instance, c.op, data, rootHandlers, hid)
         IN  IF r.bodyRan
             THEN /\ ctxData' = data
                  /\ rootHandlers' = Append(rootHandlers, hid)
                  /\ stack' = Append(stack, Frame(hid, c, rootHandlers))
                  /\ lastNest' = [NoStep EXCEPT !.op = "enter", !.hid = hid,
                                                !.base = rootHandlers]
             ELSE /\ ctxData' = r.data
                  /\ rootHandlers' = r.handlers
                  /\ stack' = Deliver(r.raised, stack)
                  /\ lastNest' = [op |-> "leave", hid |-> hid,
                                  base |-> rootHandlers, raised |-> r.raised,
                                  returned |-> r.returned]
    /\ calls' = calls + 1
    /\ UNCHANGED <<log, last, _registered_services, providerVars,
                   discoverVars, accessorVars, entityVars>>

\* the running body logs: Logger.callHandlers hands the record to every
\* handler of the root logger, MessageHandler.emit appends it to its list
NestEmit ==
    /\ stack # <<>>
    /\ Top.pending = NoError
    /\ Len(log) < MaxLog
    /\ LET record == [by |-> Top.plugin, n |-> Len(log) + 1]
       IN  /\ log' = Append(log, [record |-> record, active |-> Active])
           /\ stack' = [i \in DOMAIN stack |->
                          IF stack[i].hid \in Range(rootHandlers)
                          THEN [stack[i] EXCEPT !.records = Append(@, record)]
                          ELSE stack[i]]
    /\ lastNest' = [NoStep EXCEPT !.op = "emit", !.hid = Top.hid]
    /\ UNCHANGED <<ctxData, rootHandlers, calls, last, _registered_services,
                   providerVars, discoverVars, accessorVars, entityVars>>

\* lines 289-308 (340-359) for the innermost call, whose body ended with
\* thrown (NoError: it returned) and left the data store data
Leave(thrown, data) ==
    LET f      == Top
        m      == PluginClasses[f.plugin][f.op]
        result == [success  |-> TryResult(thrown).success,
                   plugin   |-> f.plugin,
                   instance |-> f.instance,
                   error    |-> TryResult(thrown).error,
                   records  |-> f.records,
                   duration |-> m.ticks * 1000]
        step   == [NoStep EXCEPT !.op = "leave", !.hid = f.hid, !.base = f.base]
    IN  IF thrown # NoError /\ ~ Caught(thrown)
        THEN \* not an Exception: leaves the try statement and the call
             /\ ctxData' = data
             /\ rootHandlers' = rootHandlers
             /\ stack' = Deliver(thrown, Popped)
             /\ lastNest' = [step EXCEPT !.raised = thrown]
        ELSE IF "results" \notin DOMAIN data
        THEN \* line 306: context.data("results") is None
             /\ ctxData' = data
             /\ rootHandlers' = removeHandler(rootHandlers, f.hid)
             /\ stack' = Deliver(Error("AttributeError", "engine"), Popped)
             /\ lastNest' = [step EXCEPT !.raised = Error("AttributeError", "engine")]
        ELSE /\ ctxData' = With(data, "results", Append(data["results"], result))
             /\ rootHandlers' = removeHandler(rootHandlers, f.hid)
             /\ stack' = Popped
             /\ lastNest' = [step EXCEPT !.returned = result]

\* the running body ends as its class says
NestBodyEnds ==
    /\ stack # <<>>
    /\ Top.pending = NoError
    /\ LET m == PluginClasses[Top.plugin][Top.op]
       IN  Leave(BodyError(Top.plugin, m), Tamper(m, ctxData))
    /\ UNCHANGED <<log, calls, last, _registered_services, providerVars,
                   discoverVars, accessorVars, entityVars>>

\* the running body catches what the call it made raised (try/except
\* around the call) and goes on
NestBodyCatches ==
    /\ stack # <<>>
    /\ Top.pending # NoError
    /\ stack' = [stack EXCEPT ![Len(stack)].pending = NoError]
    /\ lastNest' = [NoStep EXCEPT !.op = "catch", !.hid = Top.hid]
    /\ UNCHANGED <<log, ctxData, rootHandlers, calls, last,
                   _registered_services, providerVars, discoverVars,
                   accessorVars, entityVars>>

\* the running body lets what the call it made raised pass: the body ends
\* with that exception
NestBodyPasses ==
    /\ stack # <<>>
    /\ Top.pending # NoError
    /\ Leave(Top.pending, ctxData)
    /\ UNCHANGED <<log, calls, last, _registered_services, providerVars,
                   discoverVars, accessorVars, entityVars>>

NestNext ==
    \/ NestEnter
    \/ NestEmit
    \/ NestBodyEnds
    \/ NestBodyCatches
    \/ NestBodyPasses

NestSpec == Init /\ [][NestNext]_vars

\* the records emitted while the call with handler hid was running
EmittedDuring(hid) ==
    LET during == SelectSeq(log, LAMBDA e : hid \in e.active)
    IN  [i \in DOMAIN during |-> during[i].record]

\* C22: handler attachment nests: while a call is running, whatever calls
\* its body made, its handler is attached and has captured exactly the
\* records emitted since it began; and when a call returns, inner or
\* outer, the root logger holds the handlers it held when that call began
\* and the Result's records are exactly those emitted during the call.
C22_HandlersNest ==
    /\ \A i \in DOMAIN stack :
         /\ stack[i].hid \in Range(rootHandlers)
         /\ stack[i].records = EmittedDuring(stack[i].hid)
    /\ (lastNest.op = "leave" /\ lastNest.raised = NoError)
         => /\ rootHandlers = lastNest.base
            /\ lastNest.returned.records = EmittedDuring(lastNest.hid)

----------------------------------------------------------------------------
(* Data of an Instance                           lines 388-422 and 515-534 *)

\* the keys and the values set_data, remove_data and data are called with;
\* None is a value like any other for set_data
DataKeys == {"name", "k"}

DataValues == {"X", None}

DataDefaults == {None, "D"}

\* dict.get(key, default)
dict_get(d, key, default) == IF key \in DOMAIN d THEN d[key] ELSE default

\* AbstractEntity.data(key, default) for a key that is not None
AbstractEntity_data(es, self, key, default) ==
    dict_get(es[self].data, key, default)

\* Instance.data(key, default) for a key that is not None
Instance_data(es, self, key, default) ==
    LET value == AbstractEntity_data(es, self, key, default)
    IN  IF key = "name" /\ value = None THEN es[self].name ELSE value

\* AbstractEntity.remove_data: the entities after self.remove_data(key)
\* returned
remove_data(es, self, key) == [es EXCEPT ![self].data = Without(@, key)]

DataOp(op, entity, key, value, raised, returned) ==
    [op |-> op, entity |-> entity, arg |-> key, value |-> value,
     raised |-> raised, returned |-> returned]

\* Instance(name) and context.create_instance(name)
DataNewInstance ==
    /\ Cardinality(Live(entities)) < Len(InstancePool)
    /\ \E name \in Names, parent \in {None, ContextObj} :
         /\ entities' = Instance(entities, NextInstance, name, parent)
         /\ lastEntity' = DataOp("Instance", NextInstance, name, None, None, None)
    /\ UNCHANGED <<_registered_services, engineVars, providerVars,
                   discoverVars, accessorVars>>

\* instance.set_data(key, value)
DataSetData ==
    /\ \E self \in Receivers \cap Live(entities), key \in DataKeys,
          value \in DataValues :
         /\ entities' = set_data(entities, self, key, value)
         /\ lastEntity' = DataOp("set_data", self, key, value, None, None)
    /\ UNCHANGED <<_registered_services, engineVars, providerVars,
                   discoverVars, accessorVars>>

\* instance.remove_data(key): KeyError of dict.pop when the key is absent
DataRemoveData ==
    /\ \E self \in Receivers \cap Live(entities), key \in DataKeys :
         IF key \in DOMAIN entities[self].data
         THEN /\ entities' = remove_data(entities, self, key)
              /\ lastEntity' = DataOp("remove_data", self, key, None, None, None)
         ELSE /\ entities' = entities
              /\ lastEntity' = DataOp("remove_data", self, key, None, "KeyError", None)
    /\ UNCHANGED <<_registered_services, engineVars, providerVars,
                   discoverVars, accessorVars>>

\* instance.data(key, default)
DataRead ==
    /\ \E self \in Receivers \cap Live(entities), key \in DataKeys,
          default \in DataDefaults :
         lastEntity' = DataOp("data", self, key, default, None,
                              Instance_data(entities, self, key, default))
    /\ UNCHANGED <<entities, _registered_services, engineVars, providerVars,
                   discoverVars, accessorVars>>

\* context.add(instance)
DataAdd ==
    /\ \E other \in Live(entities) :
         /\ entities' = add(entities, ContextObj, other)
         /\ lastEntity' = DataOp("add", ContextObj, other, None, None, None)
    /\ UNCHANGED <<_registered_services, engineVars, providerVars,
                   discoverVars, accessorVars>>

\* context.remove(instance): ValueError of list.index when no member is
\* equal
DataRemove ==
    /\ \E other \in Live(entities) :
         IF Contains(entities, ContextObj, other)
         THEN /\ entities' = remove(entities, ContextObj, other)
              /\ lastEntity' = DataOp("remove", ContextObj, other, None, None, None)
         ELSE /\ entities' = entities
              /\ lastEntity' = DataOp("remove", ContextObj, other, None, "ValueError", None)
    /\ UNCHANGED <<_registered_services, engineVars, providerVars,
                   discoverVars, accessorVars>>

DataNext ==
    \/ DataNewInstance
    \/ DataSetData
    \/ DataRemoveData
    \/ DataRead
    \/ DataAdd
    \/ DataRemove

DataSpec == Init /\ [][DataNext]_vars

\* the name read as data is the store's "name" entry when the store holds
\* one and the constructor name otherwise
NameAsData ==
    (lastEntity.op = "data" /\ lastEntity.arg = "name")
        => lastEntity.returned =
             IF "name" \in DOMAIN entities[lastEntity.entity].data
             THEN entities[lastEntity.entity].data["name"]
             ELSE entities[lastEntity.entity].name

\* set_data, remove_data, add and remove leave every Instance's name, what
\* it is equal to and what its parent holds as they were, but for the
\* member an add or remove is about
IdentityStep ==
    lastEntity'.op \in {"set_data", "remove_data", "add", "remove"}
        => /\ \A i \in Live(entities) :
                /\ entities'[i].kind = "Instance"
                /\ entities'[i].name = entities[i].name
                /\ entities'[i].parent = entities[i].parent
                /\ \A x \in DOMAIN entities :
                     __eq__(entities', i, x) <=> __eq__(entities, i, x)
           /\ lastEntity'.op \in {"set_data", "remove_data"}
                => \A e \in DOMAIN entities :
                     entities'[e].members = entities[e].members

\* C23: instance.data("name", default) returns the "name" entry of the
\* data store when there is one and the constructor name when there is
\* none, whatever set_data and remove_data did before and whatever default
\* is passed; and set_data, remove_data, add and remove never change the
\* name field, equality or membership in the parent.
C23_NameAsData == [] NameAsData /\ [][IdentityStep]_vars

----------------------------------------------------------------------------
(* sort on plug-ins whose order is unset                     lines 971-990 *)

\* sort is called with lists of up to MaxUnsetLen distinct classes, three
\* of them with order = None
MaxUnsetLen == 3

UnsetSortClasses ==
    {"Bare", "BareB", "ExtractUnset", "Collect", "CheckNaming", "MayaOnly"}

UnsetSortInputs ==
    UNION {Orderings(S) :
             S \in {T \in SUBSET UnsetSortClasses : Cardinality(T) <= MaxUnsetLen}}

\* sort(plugins) on a list of the caller's
SortUnset ==
    /\ \E plugins \in UnsetSortInputs :
         lastDiscover' = [NoOp EXCEPT !.op = "sort", !.unsorted = plugins,
                                      !.result = sort(plugins)]
    /\ UNCHANGED <<_registered_plugins, _registered_paths, others>>

SortNext == SortUnset

SortSpec == Init /\ [][SortNext]_vars

\* the classes of a list whose order is unset
UnsetOf(l) == {i \in DOMAIN l : ~ Classes[l[i]].order.set}

\* C24: sort returns, without raising, a permutation of its input in which
\* the plug-ins of unset order come first, in the order they had in the
\* input, whatever number of them the input holds and wherever they stood.
C24_UnsetOrderSort ==
    lastDiscover.op = "sort"
        => LET u == lastDiscover.unsorted
               r == lastDiscover.result
           IN  /\ lastDiscover.raised = None
               /\ Len(r) = Len(u)
               /\ Range(r) = Range(u)
               /\ UnsetOf(r) = 1..Cardinality(UnsetOf(u))
               /\ \A i, j \in UnsetOf(r) :
                    i < j => Pos(u, r[i]) < Pos(u, r[j])

\* C24 witness: two plug-ins of unset order on either side of a selector
\* come back in front of it, in their input order.
C24_Witness ==
    /\ lastDiscover.op = "sort"
    /\ lastDiscover.unsorted = <<"BareB", "Collect", "Bare">>
    /\ lastDiscover.result = <<"BareB", "Bare", "Collect">>

----------------------------------------------------------------------------
(* Claims about the Results of the engine (checked under Spec)             *)

\* a Result as the engine leaves it: success exactly when no error was
\* captured, a plug-in class, an instance argument and a duration
WellFormed(r) ==
    /\ r.success <=> (r.error = NoError)
    /\ r.plugin \in Plugins
    /\ r.instance \in Instances
    /\ r.duration \in Nat

\* C25: every Result in the context's results has success = True exactly
\* when its error is none and has a duration; and the Result a call
\* appends carries the plug-in class and the instance argument of that
\* call.
C25_ResultWellFormed ==
    /\ \A i \in DOMAIN ResultsOf(ctxData) : WellFormed(ResultsOf(ctxData)[i])
    /\ (last.op # None /\ last.returned # NoResult)
         => /\ ResultsOf(ctxData) # <<>>
            /\ ResultsOf(ctxData)[Len(ResultsOf(ctxData))] = last.returned
            /\ last.returned.plugin = last.plugin
            /\ last.returned.instance = last.instance

\* C25 witness: the results hold a success of a context-level call and a
\* failure, with its error, of a call on an instance.
C25_Witness ==
    /\ Len(ResultsOf(ctxData)) = 2
    /\ ResultsOf(ctxData)[1].success
    /\ ResultsOf(ctxData)[1].instance = None
    /\ ~ ResultsOf(ctxData)[2].success
    /\ ResultsOf(ctxData)[2].error = Error("RuntimeError", "Boom")
    /\ ResultsOf(ctxData)[2].instance = "inst1"
    /\ last.returned = ResultsOf(ctxData)[2]

====
